---- MODULE Spec2Model ----
(***************************************************************************)
(* pyext2: a reader of single-block-group ext2 images.                     *)
(*                                                                         *)
(* The model follows Ext2Reader (src/pyext2/ext2reader.py): parse() is     *)
(* taken apart into the steps of its loops, find_inode_for_path() into one *)
(* step per path component, read_data_from_inode() is one step.  The image *)
(* is an input: Init draws it from a bounded family of images.             *)
(***************************************************************************)
EXTENDS Integers, Sequences, FiniteSets, TLC

VARIABLES
    img,               \* the image file (never written)
    pc,                \* position inside parse()
    err,               \* the exception that ended parse(), or "none"
    reads,             \* the _read() calls made so far: [what, off, size]
    inode_table,       \* parse()'s local dict inode_table
    bound,             \* TRUE once self.inode_table = inode_table has run
    count,             \* parse()'s counter of visited slots (= inode_index)
    cur,               \* inode_index of the inode being filled in
    k,                 \* number of slots of inode.block already taken
    blk,               \* the block pointer b being walked
    offset,            \* the cursor of the directory-entry walk
    op,                \* position inside find_inode_for_path / read_file
    path,              \* the argument of the running operation
    path_parts,        \* find_inode_for_path's path_parts
    pos,               \* number of components already consumed
    current_inode_idx, \* find_inode_for_path's current_inode_idx
    op_err,            \* the exception that ended the operation, or "none"
    msg,               \* what the RuntimeError names: [p, keys]
    data               \* what read_data_from_inode returned: [off, len]

vars == <<img, pc, err, reads, inode_table, bound, count, cur, k, blk, offset,
          op, path, path_parts, pos, current_inode_idx, op_err, msg, data>>

parseVars == <<pc, err, reads, inode_table, bound, count, cur, k, blk, offset>>
opVars == <<op, path, path_parts, pos, current_inode_idx, op_err, msg, data>>

----------------------------------------------------------------------------
(* Bounds                                                                  *)

\* longest path string handed to find_inode_for_path / read_file
MaxPathLen == 4

----------------------------------------------------------------------------
(* Program constants                                                       *)

EXT2_S_IFMT == 61440
EXT2_S_IFLNK == 40960
EXT2_S_IFREG == 32768
EXT2_S_IFDIR == 16384

\* "15 x 4 i_block": the block-pointer slots of an inode
NBlockSlots == 15
\* the superblock is the 1024 bytes at offset 1024
SuperBlockOffset == 1024
SuperBlockSize == 1024
\* block_size = 1024 << log_block_size
BaseBlockSize == 1024
\* the group descriptor record
GroupDescSize == 32
\* struct "IHbb": the directory-entry header
DirHeaderSize == 8
\* parse() cuts inode.size down to this
RawDataCap == 64
\* the inode number find_inode_for_path starts from
RootIno == 2

----------------------------------------------------------------------------
(* Helpers                                                                 *)

Min(a, b) == IF a < b THEN a ELSE b
Max(a, b) == IF a < b THEN b ELSE a

RECURSIVE Pow2(_)
Pow2(n) == IF n = 0 THEN 1 ELSE 2 * Pow2(n - 1)

\* Python's & on non-negative integers
RECURSIVE BitAnd(_, _)
BitAnd(a, b) ==
    IF a = 0 \/ b = 0 THEN 0
    ELSE (a % 2) * (b % 2) + 2 * BitAnd(a \div 2, b \div 2)

\* int(a / b) of two non-negative integers, b > 0
IntDiv(a, b) == a \div b

\* int(math.ceil(a / b)) of two non-negative integers, b > 0
CeilDiv(a, b) == IF a % b = 0 THEN a \div b ELSE (a \div b) + 1

Zeros(n) == [i \in 1..n |-> 0]

\* a 15-slot i_block whose first slots are `first`
Block(first) == first \o Zeros(NBlockSlots - Len(first))

----------------------------------------------------------------------------
(* Text: path strings are sequences of characters, names on disk are       *)
(* sequences of bytes.                                                     *)

Alphabet == {"/", "a", "d"}

\* str.encode(): the UTF-8 byte of each (ASCII) character
Ord(c) == CASE c = "/" -> 47 [] c = "a" -> 97 [] c = "d" -> 100

encode(p) == [i \in 1..Len(p) |-> Ord(p[i])]

\* path.split("/")
RECURSIVE split(_)
split(s) ==
    IF s = <<>> THEN << <<>> >>
    ELSE LET rest == split(Tail(s)) IN
         IF Head(s) = "/" THEN << <<>> >> \o rest
         ELSE << <<Head(s)>> \o Head(rest) >> \o Tail(rest)

Paths == UNION {[1..n -> Alphabet] : n \in 0..MaxPathLen}

----------------------------------------------------------------------------
(* The images.  An image is what the decoders of parse() see of the file:  *)
(* the superblock fields, the group descriptor, the first bytes of the     *)
(* inode bitmap block, the inode records of the inode table and the        *)
(* directory-entry headers found at byte offsets of the file (every other  *)
(* offset holds zero bytes).                                               *)

SB(bc, bpg, isz, ipg) ==
    [s_blocks_count |-> bc, s_blocks_per_group |-> bpg, s_log_block_size |-> 1,
     s_inode_size |-> isz, s_inodes_per_group |-> ipg, s_first_ino |-> 11]

\* 64 blocks of 2048 bytes, 8 inodes of 256 bytes in one table block
GoodSB == SB(64, 8192, 256, 8)

\* the same volume with inodes 4.. ordinarily allocatable (s_first_ino = 4)
LowFirstInoSB == [GoodSB EXCEPT !.s_first_ino = 4]

BadSBs ==
    { SB(8193, 8192, 256, 8),   \* two block groups
      SB(0, 8192, 256, 8),      \* no block group
      SB(64, 0, 256, 8),        \* blocks_per_group = 0
      SB(64, 8192, 0, 8),       \* inode_size = 0
      SB(8193, 8192, 0, 8),     \* two block groups and inode_size = 0
      SB(64, 8192, 4096, 8),    \* inode_size > block_size
      SB(64, 8192, 256, 12) }   \* inodes_per_group is no multiple of 8

GD == [bg_block_bitmap |-> 3, bg_inode_bitmap |-> 4, bg_inode_table |-> 5]

\* the first two bytes of the inode bitmap block; the rest of it is zero
Bitmaps ==
    { <<255, 0>>,    \* ext2: inodes 1..8 in use
      <<31, 0>>,     \* ext2: inodes 1..5 in use
      <<60, 0>>,     \* BitArray indices 2..5
      <<0, 0>> }

Ino(mode, size, first) == [i_mode |-> mode, i_size |-> size, i_block |-> Block(first)]

FreeIno == Ino(0, 0, <<>>)

\* inode 2: the root directory, with two directory blocks (slot 1 is a hole)
RootIno2 == Ino(16877, 4096, <<20, 0, 24>>)

Ino3Choices ==
    { Ino(33188, 13, <<50>>),      \* regular file, 13 bytes
      Ino(33188, 65, <<50>>),      \* regular file, 65 bytes
      Ino(33188, 5000, <<50, 52>>),\* regular file, more than one block
      Ino(4516, 0, <<>>) }         \* fifo

Ino4Choices ==
    { Ino(16877, 2048, <<22>>),    \* directory
      Ino(41471, 1, <<97>>),       \* fast symlink to "a"
      Ino(49645, 0, <<>>) }        \* socket

Ino5 == Ino(33188, 13, <<51>>)

InodeRecords(i3, i4) ==
    [n \in 1..12 |->
        CASE n = 2 -> RootIno2
          [] n = 3 -> i3
          [] n = 4 -> i4
          [] n = 5 -> Ino5
          [] OTHER -> FreeIno]

E(ino, rec_len, name_len, file_type, name) ==
    [inode |-> ino, rec_len |-> rec_len, name_len |-> name_len,
     file_type |-> file_type, name |-> name]

ZeroEntry == E(0, 0, 0, 0, <<>>)

\* byte offset rel of block b, in blocks of 2048 bytes
Off(b, rel) == b * (2 * BaseBlockSize) + rel

\* the root directory's first block (block 20)
RootBlock1 ==
    { \* entries closed by a zero header
      (Off(20, 0) :> E(3, 12, 1, 1, <<97>>)) @@ (Off(20, 12) :> E(4, 12, 1, 2, <<100>>)),
      \* the last entry's record length reaches the end of the block
      (Off(20, 0) :> E(3, 12, 1, 1, <<97>>)) @@ (Off(20, 12) :> E(4, 2036, 1, 2, <<100>>)),
      \* a name twice in one block
      (Off(20, 0) :> E(3, 12, 1, 1, <<97>>)) @@ (Off(20, 12) :> E(5, 12, 1, 1, <<97>>))
          @@ (Off(20, 24) :> E(4, 12, 1, 2, <<100>>)),
      \* record length 0
      (Off(20, 0) :> E(3, 0, 1, 1, <<97>>)),
      \* record length above 264
      (Off(20, 0) :> E(3, 300, 1, 1, <<97>>)) @@ (Off(20, 300) :> E(4, 12, 1, 2, <<100>>)),
      \* name length 255, read as a signed byte
      (Off(20, 0) :> E(3, 264, -1, 1, <<97>>)),
      \* an entry with an empty name
      (Off(20, 0) :> E(3, 12, 0, 1, <<>>)) @@ (Off(20, 12) :> E(4, 12, 1, 2, <<100>>)) }

\* block 21, the block after the root directory's first block: another
\* directory's entries
ForeignBlock ==
    (Off(21, 0) :> E(5, 12, 2, 1, <<100, 100>>)) @@ (Off(21, 12) :> E(3, 12, 1, 1, <<97>>))

\* block 22 (the directory inode 4) and block 24 (the root's second block)
CommonBlocks ==
    (Off(22, 0) :> E(5, 12, 1, 1, <<97>>)) @@ (Off(22, 12) :> E(2, 12, 1, 2, <<100>>))
    @@ (Off(24, 0) :> E(5, 12, 1, 1, <<97>>)) @@ (Off(24, 12) :> E(5, 12, 2, 1, <<97, 97>>))

Dirents ==
    {r @@ CommonBlocks : r \in RootBlock1}
    \cup {r @@ ForeignBlock @@ CommonBlocks :
            r \in {x \in RootBlock1 : \E o \in DOMAIN x : x[o].rec_len > 1000}}

Image(sb, bm, i3, i4, d) ==
    [sb |-> sb, gd |-> GD, ibitmap |-> bm, inodes |-> InodeRecords(i3, i4),
     dirents |-> d, nbytes |-> Off(64, 0)]

Images ==
    {Image(GoodSB, bm, i3, i4, d) :
        bm \in Bitmaps, i3 \in Ino3Choices, i4 \in Ino4Choices, d \in Dirents}
    \cup {Image(sb, <<60, 0>>, Ino(33188, 13, <<50>>), Ino(16877, 2048, <<22>>),
                CHOOSE d \in Dirents : TRUE) : sb \in BadSBs}
    \cup {Image(LowFirstInoSB, <<60, 0>>, i3, i4, d) :
            i3 \in Ino3Choices, i4 \in Ino4Choices, d \in Dirents}

----------------------------------------------------------------------------
(* SuperBlock.__init__: the derived geometry                               *)

block_size(sb) == BaseBlockSize * Pow2(sb.s_log_block_size)

inodes_per_block(sb) == IntDiv(block_size(sb), sb.s_inode_size)

inode_table_size(sb) == IntDiv(sb.s_inodes_per_group, inodes_per_block(sb))

\* nb_block_groups with the quotient rounded down
nb_block_groups_floor(sb) == IntDiv(sb.s_blocks_count, sb.s_blocks_per_group)

nb_block_groups(sb) == CeilDiv(sb.s_blocks_count, sb.s_blocks_per_group)

\* the exceptions of parse(), by the line that raises them
ZeroDivisionError == "ZeroDivisionError"
UnsupportedVolume == "AssertionError: nb_block_groups == 1"
InconsistentGeometry == "AssertionError: inode_table_size * inodes_per_block"
StructError == "struct.error"

\* SuperBlock(...) and the assert that follows it: the exception raised, if any
SuperBlockError(sb) ==
    IF sb.s_inode_size = 0 THEN ZeroDivisionError
    ELSE IF inodes_per_block(sb) = 0 THEN ZeroDivisionError
    ELSE IF sb.s_blocks_per_group = 0 THEN ZeroDivisionError
    ELSE IF nb_block_groups(sb) # 1 THEN UnsupportedVolume
    ELSE "none"

----------------------------------------------------------------------------
(* _read, InodeBitmap, Inode                                               *)

Rd(what, off, size) == [what |-> what, off |-> off, size |-> size]

\* the bytes file.read(size) returns at off, as a range of the file
ReadRange(off, size) == [off |-> off, len |-> Max(0, Min(size, img.nbytes - off))]

NoData == [off |-> 0, len |-> 0]

\* InodeBitmap.__getitem__: BitArray numbers the bits of a byte from its
\* most significant bit
InodeBitmap_getitem(bytes, idx) ==
    IF (idx \div 8) + 1 > Len(bytes) THEN FALSE
    ELSE (bytes[(idx \div 8) + 1] \div Pow2(7 - (idx % 8))) % 2 = 1

\* the 128-byte record of the inode table at byte offset off
InodeAt(off) ==
    img.inodes[((off - block_size(img.sb) * img.gd.bg_inode_table)
                    \div img.sb.s_inode_size) + 1]

\* Inode.__init__
Inode(rec) ==
    [mode |-> rec.i_mode, size |-> rec.i_size, block |-> rec.i_block,
     files |-> <<>>, raw_data |-> NoData]

\* ext2reader.Inode.is_file / is_dir / is_link
is_file(inode) == BitAnd(inode.mode, EXT2_S_IFREG) # 0
is_dir(inode) == BitAnd(inode.mode, EXT2_S_IFDIR) # 0
is_link(inode) == BitAnd(inode.mode, EXT2_S_IFLNK) # 0

\* inode.Inode.is_file / is_dir / is_link
Inode_is_file(inode) == BitAnd(inode.mode, EXT2_S_IFMT) = EXT2_S_IFREG
Inode_is_dir(inode) == BitAnd(inode.mode, EXT2_S_IFMT) = EXT2_S_IFDIR
Inode_is_link(inode) == BitAnd(inode.mode, EXT2_S_IFMT) = EXT2_S_IFLNK

\* the 8-byte header and the name found at byte offset off
DirHeader(off) == IF off \in DOMAIN img.dirents THEN img.dirents[off] ELSE ZeroEntry

\* the keys of inode.files, in insertion order
Keys(files) == [i \in 1..Len(files) |-> files[i].name]

KeySet(files) == {files[i].name : i \in 1..Len(files)}

\* if name not in inode.files: inode.files[name] = entry
AddEntry(files, entry) ==
    IF entry.name \in KeySet(files) THEN files ELSE Append(files, entry)

DirEntry(index, inode_type, name) ==
    [index |-> index, inode_type |-> inode_type, name |-> name]

----------------------------------------------------------------------------
(* Ext2Reader.__init__                                                     *)

NoMsg == [p |-> <<>>, keys |-> <<>>]

Init ==
    /\ img \in Images
    /\ pc = "init"
    /\ err = "none"
    /\ reads = {}
    /\ inode_table = <<>>
    /\ bound = FALSE
    /\ count = 0
    /\ cur = 0
    /\ k = 0
    /\ blk = 0
    /\ offset = 0
    /\ op = "idle"
    /\ path = <<>>
    /\ path_parts = <<>>
    /\ pos = 0
    /\ current_inode_idx = 0
    /\ op_err = "none"
    /\ msg = NoMsg
    /\ data = NoData

----------------------------------------------------------------------------
(* Ext2Reader.parse                                                        *)

\* lines 429-431: the superblock is read and decoded, one block group is asserted
ParseSuperBlock ==
    /\ pc = "init"
    /\ reads' = reads \cup {Rd("superblock", SuperBlockOffset, SuperBlockSize)}
    /\ err' = SuperBlockError(img.sb)
    /\ pc' = IF SuperBlockError(img.sb) = "none" THEN "superblock" ELSE "failed"
    /\ UNCHANGED <<img, inode_table, bound, count, cur, k, blk, offset>>
    /\ UNCHANGED opVars

\* lines 434-466: the group descriptor, the geometry assert, the two bitmaps
ParseGroupDesc ==
    /\ pc = "superblock"
    /\ LET bs == block_size(img.sb)
           ok == inode_table_size(img.sb) * IntDiv(bs, img.sb.s_inode_size)
                    = img.sb.s_inodes_per_group
       IN /\ reads' = reads \cup {Rd("group_desc", bs, GroupDescSize)}
                \cup (IF ok
                      THEN {Rd("block_bitmap", bs * img.gd.bg_block_bitmap, bs),
                            Rd("inode_bitmap", bs * img.gd.bg_inode_bitmap, bs)}
                      ELSE {})
          /\ err' = IF ok THEN "none" ELSE InconsistentGeometry
          /\ pc' = IF ok THEN "scan" ELSE "failed"
    /\ count' = 0
    /\ inode_table' = <<>>
    /\ UNCHANGED <<img, bound, cur, k, blk, offset>>
    /\ UNCHANGED opVars

\* ParsesDir with the walk kept to the root and the inodes below s_first_ino
ParsesDir_Gated(inode_index, inode) ==
    is_dir(inode) /\ (inode_index = RootIno \/ inode_index < img.sb.s_first_ino)

\* line 487: whether the blocks of the inode just stored are walked as a directory
ParsesDir(inode_index, inode) == is_dir(inode)

\* lines 468-487: one turn of the two slot loops, up to inode_table[inode_index] = inode
ScanSlot ==
    /\ pc = "scan"
    /\ LET bs == block_size(img.sb)
           inode_size == img.sb.s_inode_size
           per_block == IntDiv(bs, inode_size)
           inode_blocks_per_group == IntDiv(img.sb.s_inodes_per_group, per_block)
           i == count \div per_block
           j == count % per_block
           inode_index == i * per_block + j + 1
           jth_inode_offset == bs * img.gd.bg_inode_table + bs * i + inode_size * j
           inode == Inode(InodeAt(jth_inode_offset))
       IN IF count = inode_blocks_per_group * per_block
          THEN /\ pc' = "opened"
               /\ UNCHANGED <<count, reads, inode_table, cur, k>>
          ELSE /\ count' = count + 1
               /\ IF ~InodeBitmap_getitem(img.ibitmap, inode_index)
                  THEN UNCHANGED <<pc, reads, inode_table, cur, k>>
                  ELSE /\ reads' = reads \cup {Rd("inode", jth_inode_offset, inode_size)}
                       /\ inode_table' = (inode_index :> inode) @@ inode_table
                       /\ cur' = inode_index
                       /\ k' = 0
                       /\ pc' = IF ParsesDir(inode_index, inode) THEN "dir" ELSE "file"
    /\ UNCHANGED <<img, err, bound, blk, offset>>
    /\ UNCHANGED opVars

\* lines 488-492: for b in inode.block, a zero pointer is passed over
DirNextBlock ==
    /\ pc = "dir"
    /\ IF k = Len(inode_table[cur].block)
       THEN /\ pc' = "file"
            /\ UNCHANGED <<k, blk, offset>>
       ELSE LET b == inode_table[cur].block[k + 1] IN
            /\ k' = k + 1
            /\ IF b = 0
               THEN UNCHANGED <<pc, blk, offset>>
               ELSE /\ blk' = b
                    /\ offset' = b * block_size(img.sb)
                    /\ pc' = "walk"
    /\ UNCHANGED <<img, err, reads, inode_table, bound, count, cur>>
    /\ UNCHANGED opVars

\* the cursor after an entry of record length size
Advance(off, size) == off + size

\* lines 493-507: one turn of the while True loop over the entries of a block
WalkEntry ==
    /\ pc = "walk"
    /\ LET h == DirHeader(offset)
           hdr == Rd("dir_header", offset, DirHeaderSize)
           nam == Rd("dir_name", offset + DirHeaderSize, h.name_len)
       IN IF offset + DirHeaderSize > img.nbytes
          THEN \* struct.unpack("IHbb") of a short read
               /\ reads' = reads \cup {hdr}
               /\ pc' = "failed"
               /\ err' = StructError
               /\ UNCHANGED <<inode_table, offset>>
          ELSE IF h.inode = 0
          THEN /\ reads' = reads \cup {hdr}
               /\ pc' = "dir"
               /\ UNCHANGED <<err, inode_table, offset>>
          ELSE IF h.name_len < 0 \/ offset + DirHeaderSize + h.name_len > img.nbytes
          THEN \* struct.unpack(f"{name_len}s") of a negative length or a short read
               /\ reads' = reads \cup {hdr, nam}
               /\ pc' = "failed"
               /\ err' = StructError
               /\ UNCHANGED <<inode_table, offset>>
          ELSE /\ reads' = reads \cup {hdr, nam}
               /\ offset' = Advance(offset, h.rec_len)
               /\ inode_table' =
                    [inode_table EXCEPT ![cur].files =
                        AddEntry(@, DirEntry(h.inode, h.file_type, h.name))]
               /\ UNCHANGED <<pc, err>>
    /\ UNCHANGED <<img, bound, count, cur, k, blk>>
    /\ UNCHANGED opVars

\* the size parse() leaves in inode.size
CutSize(size) == IF size > RawDataCap THEN RawDataCap ELSE size

\* lines 509-521: the data of a file, then self.inode_table = inode_table
FinishInode ==
    /\ pc = "file"
    /\ LET inode == inode_table[cur]
           size == CutSize(inode.size)
           off == inode.block[1] * block_size(img.sb)
       IN IF is_file(inode)
          THEN /\ reads' = reads \cup {Rd("file_data", off, size)}
               /\ inode_table' =
                    [inode_table EXCEPT ![cur].size = size,
                                        ![cur].raw_data = ReadRange(off, size)]
          ELSE UNCHANGED <<reads, inode_table>>
    /\ bound' = TRUE
    /\ pc' = "scan"
    /\ UNCHANGED <<img, err, count, cur, k, blk, offset>>
    /\ UNCHANGED opVars

----------------------------------------------------------------------------
(* Ext2Reader.find_inode_for_path, read_file, read_data_from_inode         *)

NotAbsolute == "AssertionError: path must be absolute"
AttributeError == "AttributeError"
KeyError == "KeyError"
NotFound == "RuntimeError"
NotAFile == "AssertionError: inode.is_file"

\* Lookup with the entry's type tag taken for its inode number
Lookup_TypeForIndex(files, name) ==
    LET hits == {i \in 1..Len(files) : files[i].name = name} IN
    IF hits = {} THEN [found |-> FALSE, index |-> 0]
    ELSE [found |-> TRUE,
          index |-> files[CHOOSE i \in hits : \A h \in hits : i <= h].inode_type]

\* lines 411-417: the for/else over current_inode.files; the entry whose
\* name is the component, and whether there is one
Lookup(files, name) ==
    LET hits == {i \in 1..Len(files) : files[i].name = name} IN
    IF hits = {} THEN [found |-> FALSE, index |-> 0]
    ELSE [found |-> TRUE,
          index |-> files[CHOOSE i \in hits : \A h \in hits : i <= h].index]

\* lines 404-406
FindBegin ==
    /\ pc = "opened"
    /\ op = "idle"
    /\ \E s \in Paths :
        /\ path' = s
        /\ IF s # <<>> /\ s[1] = "/"
           THEN /\ path_parts' = Tail(split(s))
                /\ current_inode_idx' = RootIno
                /\ op' = "resolving"
                /\ op_err' = "none"
           ELSE /\ path_parts' = <<>>
                /\ current_inode_idx' = 0
                /\ op' = "find_failed"
                /\ op_err' = NotAbsolute
    /\ pos' = 0
    /\ UNCHANGED <<msg, data>>
    /\ UNCHANGED <<img>>
    /\ UNCHANGED parseVars

\* lines 408-419: one turn of the loop over path_parts, or the return
FindStep ==
    /\ op = "resolving"
    /\ IF pos = Len(path_parts)
       THEN /\ op' = "resolved"
            /\ UNCHANGED <<pos, current_inode_idx, op_err, msg>>
       ELSE IF ~bound
       THEN /\ op' = "find_failed"
            /\ op_err' = AttributeError
            /\ UNCHANGED <<pos, current_inode_idx, msg>>
       ELSE IF current_inode_idx \notin DOMAIN inode_table
       THEN /\ op' = "find_failed"
            /\ op_err' = KeyError
            /\ UNCHANGED <<pos, current_inode_idx, msg>>
       ELSE LET current_inode == inode_table[current_inode_idx]
                p == path_parts[pos + 1]
                hit == Lookup(current_inode.files, encode(p))
            IN IF hit.found
               THEN /\ current_inode_idx' = hit.index
                    /\ pos' = pos + 1
                    /\ UNCHANGED <<op, op_err, msg>>
               ELSE /\ op' = "find_failed"
                    /\ op_err' = NotFound
                    /\ msg' = [p |-> p, keys |-> Keys(current_inode.files)]
                    /\ UNCHANGED <<pos, current_inode_idx>>
    /\ UNCHANGED <<path, path_parts, data>>
    /\ UNCHANGED <<img>>
    /\ UNCHANGED parseVars

\* ReadDataFromInode with the data loaded on the first read: the inode's
\* raw_data is filled in by the read instead of by parse()
ReadDataFromInode_Lazy ==
    /\ op = "resolved"
    /\ bound
    /\ current_inode_idx \in DOMAIN inode_table
    /\ is_file(inode_table[current_inode_idx])
    /\ LET inode == inode_table[current_inode_idx]
           got == ReadRange(inode.block[1] * block_size(img.sb),
                            img.inodes[current_inode_idx].i_size)
       IN /\ inode_table' = [inode_table EXCEPT ![current_inode_idx].raw_data = got]
          /\ data' = got
    /\ op' = "read"
    /\ UNCHANGED <<path, path_parts, pos, current_inode_idx, op_err, msg>>
    /\ UNCHANGED <<img, pc, err, reads, bound, count, cur, k, blk, offset>>

\* lines 388 and 421-426: read_file goes on with read_data_from_inode
ReadDataFromInode ==
    /\ op = "resolved"
    /\ IF ~bound
       THEN /\ op' = "read_failed"
            /\ op_err' = AttributeError
            /\ UNCHANGED data
       ELSE IF current_inode_idx \notin DOMAIN inode_table
       THEN /\ op' = "read_failed"
            /\ op_err' = KeyError
            /\ UNCHANGED data
       ELSE IF ~is_file(inode_table[current_inode_idx])
       THEN /\ op' = "read_failed"
            /\ op_err' = NotAFile
            /\ UNCHANGED data
       ELSE /\ op' = "read"
            /\ data' = inode_table[current_inode_idx].raw_data
            /\ UNCHANGED op_err
    /\ UNCHANGED <<path, path_parts, pos, current_inode_idx, msg>>
    /\ UNCHANGED <<img>>
    /\ UNCHANGED parseVars

\* the operation has returned or raised: the reader waits for the next call
Return ==
    /\ op \in {"resolved", "find_failed", "read", "read_failed"}
    /\ op' = "idle"
    /\ path' = <<>>
    /\ path_parts' = <<>>
    /\ pos' = 0
    /\ current_inode_idx' = 0
    /\ op_err' = "none"
    /\ msg' = NoMsg
    /\ data' = NoData
    /\ UNCHANGED <<img>>
    /\ UNCHANGED parseVars

Next ==
    \/ ParseSuperBlock
    \/ ParseGroupDesc
    \/ ScanSlot
    \/ DirNextBlock
    \/ WalkEntry
    \/ FinishInode
    \/ FindBegin
    \/ FindStep
    \/ ReadDataFromInode
    \/ Return

Spec == Init /\ [][Next]_vars

----------------------------------------------------------------------------
(* inode.Inode.get_link_path                                               *)

\* struct.pack("i", w): the four bytes of a slot, least significant first
Bytes4(w) ==
    <<w % 256, (w \div 256) % 256, (w \div 65536) % 256, (w \div 16777216) % 256>>

\* struct.pack("15i", *self.block)
RECURSIVE Pack(_)
Pack(block) == IF block = <<>> THEN <<>> ELSE Bytes4(Head(block)) \o Pack(Tail(block))

\* bytes.decode(): the character of each (ASCII) byte
Chr(b) == CASE b = 47 -> "/" [] b = 97 -> "a" [] b = 100 -> "d"

decode(bytes) == [i \in 1..Len(bytes) |-> Chr(bytes[i])]

\* block_as_bytes[: block_as_bytes.index(0)].decode(), of a block that holds a zero byte
get_link_path(inode) ==
    LET bytes == Pack(inode.block)
        zero == CHOOSE i \in 1..Len(bytes) :
                    bytes[i] = 0 /\ \A j \in 1..(i - 1) : bytes[j] # 0
    IN decode(SubSeq(bytes, 1, zero - 1))

\* the loop of find_inode_for_path started at inode number idx: whether every
\* component was found, and the inode number it stopped at
RECURSIVE WalkFrom(_, _)
WalkFrom(idx, parts) ==
    IF parts = <<>> THEN [ok |-> TRUE, idx |-> idx]
    ELSE IF idx \notin DOMAIN inode_table THEN [ok |-> FALSE, idx |-> idx]
    ELSE LET hit == Lookup(inode_table[idx].files, encode(Head(parts))) IN
         IF hit.found THEN WalkFrom(hit.index, Tail(parts))
         ELSE [ok |-> FALSE, idx |-> idx]

----------------------------------------------------------------------------
(* C1                                                                      *)

\* the bit of slot idx when the bits of a byte are numbered from its least
\* significant bit, as ext2 numbers them
BitLsbFirst(bytes, idx) ==
    IF (idx \div 8) + 1 > Len(bytes) THEN FALSE
    ELSE (bytes[(idx \div 8) + 1] \div Pow2(idx % 8)) % 2 = 1

\* C1: after a successful open the inode table holds a record for inode
\* number N, for every N in 1..inodes_per_group, exactly if the inode bitmap
\* bit at 0-based index N-1 is set (whichever way the bits of a byte are
\* numbered).
C1_TableMatchesBitmap ==
    pc = "opened" =>
        \/ \A n \in 1..img.sb.s_inodes_per_group :
                (n \in DOMAIN inode_table) <=> InodeBitmap_getitem(img.ibitmap, n - 1)
        \/ \A n \in 1..img.sb.s_inodes_per_group :
                (n \in DOMAIN inode_table) <=> BitLsbFirst(img.ibitmap, n - 1)

----------------------------------------------------------------------------
(* C2                                                                      *)

\* the reader holds the root directory
HasRoot ==
    /\ pc = "opened"
    /\ bound
    /\ RootIno \in DOMAIN inode_table
    /\ Inode_is_dir(inode_table[RootIno])

\* C2: on an image whose root directory the reader holds, resolving "/"
\* returns inode number 2 and does not fail.
C2_RootResolves ==
    (HasRoot /\ path = <<"/">> /\ op \in {"resolved", "find_failed"}) =>
        (op = "resolved" /\ current_inode_idx = RootIno)

----------------------------------------------------------------------------
(* C3                                                                      *)

\* the entries of directory block b from the cursor off on: chained by their
\* record lengths, inside the block, closed by an entry with inode number 0
RECURSIVE BlockEntries(_, _)
BlockEntries(b, off) ==
    LET h == DirHeader(off) IN
    IF off >= (b + 1) * block_size(img.sb) \/ h.inode = 0 \/ h.rec_len <= 0
    THEN <<>>
    ELSE <<DirEntry(h.inode, h.file_type, h.name)>> \o BlockEntries(b, off + h.rec_len)

\* the on-disk entries of a directory: its block pointers in slot order
RECURSIVE OnDiskEntries(_, _)
OnDiskEntries(block, slot) ==
    IF slot > Len(block) THEN <<>>
    ELSE (IF block[slot] = 0 THEN <<>>
          ELSE BlockEntries(block[slot], block[slot] * block_size(img.sb)))
         \o OnDiskEntries(block, slot + 1)

\* the entries whose name no earlier entry has
KeepFirst(es) ==
    LET keep == {i \in 1..Len(es) : \A j \in 1..(i - 1) : es[j].name # es[i].name}
        F[i \in 0..Len(es)] ==
            IF i = 0 THEN <<>>
            ELSE IF i \in keep THEN Append(F[i - 1], es[i]) ELSE F[i - 1]
    IN F[Len(es)]

\* C3: after open the name map of every directory inode holds exactly the
\* directory's on-disk entries, in on-disk order, a repeated name keeping
\* the inode number and type tag of its first occurrence.
C3_NameMapIsOnDiskEntries ==
    pc = "opened" =>
        \A n \in DOMAIN inode_table :
            Inode_is_dir(inode_table[n]) =>
                inode_table[n].files = KeepFirst(OnDiskEntries(inode_table[n].block, 1))

----------------------------------------------------------------------------
(* C4                                                                      *)

\* C4: reading a regular file whose declared size is at most one block
\* returns exactly the declared number of bytes, the ones that start at
\* block_pointer[0] * block_size.
C4_ReadReturnsDeclaredSize ==
    (op = "read" /\ Inode_is_file(inode_table[current_inode_idx])
        /\ img.inodes[current_inode_idx].i_size <= block_size(img.sb)) =>
        /\ data.len = img.inodes[current_inode_idx].i_size
        /\ data.off = img.inodes[current_inode_idx].i_block[1] * block_size(img.sb)

----------------------------------------------------------------------------
(* C5                                                                      *)

\* the components of a link target: a leading separator is stripped
TargetParts(t) == IF t # <<>> /\ t[1] = "/" THEN Tail(split(t)) ELSE split(t)

\* C5: a resolution that passes through a symbolic link ends at the inode
\* that resolving the link's target from the link's parent directory,
\* followed by the remaining components, ends at.
C5_LinkResolvesToTarget ==
    (op = "resolved" /\ bound) =>
        \A j \in 1..Len(path_parts) :
            LET parent == WalkFrom(RootIno, SubSeq(path_parts, 1, j - 1)).idx
                link == WalkFrom(RootIno, SubSeq(path_parts, 1, j)).idx
            IN (link \in DOMAIN inode_table /\ Inode_is_link(inode_table[link])) =>
                LET t == WalkFrom(parent,
                            TargetParts(get_link_path(inode_table[link]))
                                \o SubSeq(path_parts, j + 1, Len(path_parts)))
                IN t.ok /\ current_inode_idx = t.idx

----------------------------------------------------------------------------
(* C6                                                                      *)

\* C6: reading data through an inode whose type is not regular file fails
\* with NotAFile and returns no bytes.
C6_ReadOfNonFileFails ==
    (op \in {"read", "read_failed"} /\ bound
        /\ current_inode_idx \in DOMAIN inode_table
        /\ ~Inode_is_file(inode_table[current_inode_idx])) =>
        (op = "read_failed" /\ op_err = NotAFile /\ data = NoData)

----------------------------------------------------------------------------
(* C7                                                                      *)

----------------------------------------------------------------------------
(* C8                                                                      *)

\* C8: once the header of an entry with a non-zero inode number and a
\* record length above 264 has been read, the scan has failed: open does
\* not go on past such an entry.
C8_LongRecordFailsScan ==
    \A r \in reads :
        (r.what = "dir_header" /\ DirHeader(r.off).inode # 0
            /\ DirHeader(r.off).rec_len > 264) => pc = "failed"

----------------------------------------------------------------------------
(* C9                                                                      *)

\* the entries of a name map that carry the name
Named(files, name) == {i \in 1..Len(files) : files[i].name = name}

\* the inode number reached from idx by following the components through
\* the name maps; -1 if a record or a name is missing on the way
RECURSIVE Follow(_, _)
Follow(idx, parts) ==
    IF parts = <<>> THEN idx
    ELSE IF idx \notin DOMAIN inode_table THEN -1
    ELSE LET hits == Named(inode_table[idx].files, encode(Head(parts))) IN
         IF hits = {} THEN -1
         ELSE Follow(inode_table[idx].files[CHOOSE i \in hits : TRUE].index, Tail(parts))

\* C9: resolution walks the components in order from the root: the current
\* inode is always the one reached by following the components consumed so
\* far, a result is returned only when every component was followed, and
\* NotFound is raised exactly at a component that is no key of the current
\* inode's name map, naming the component and the keys.
C9_ResolveFollowsComponents ==
    /\ op \in {"resolving", "resolved", "find_failed", "read", "read_failed"}
        /\ op_err # NotAbsolute =>
            current_inode_idx = Follow(RootIno, SubSeq(path_parts, 1, pos))
    /\ op \in {"resolved", "read", "read_failed"} => pos = Len(path_parts)
    /\ op = "find_failed" /\ op_err = NotFound =>
        /\ pos < Len(path_parts)
        /\ current_inode_idx \in DOMAIN inode_table
        /\ Named(inode_table[current_inode_idx].files, encode(path_parts[pos + 1])) = {}
        /\ msg = [p |-> path_parts[pos + 1],
                  keys |-> Keys(inode_table[current_inode_idx].files)]
    /\ op = "find_failed" /\ op_err = KeyError =>
        current_inode_idx \notin DOMAIN inode_table

\* "/d/a" was resolved through the directory d
C9_Witness ==
    /\ op = "resolved"
    /\ Len(path_parts) = 2
    /\ path_parts[1] # <<>>
    /\ pos = 2
    /\ current_inode_idx = 5

\* "/d/d" failed at its second component, inside the directory d
C9_WitnessNotFound ==
    /\ op = "find_failed"
    /\ op_err = NotFound
    /\ pos = 1

----------------------------------------------------------------------------
(* C10                                                                     *)

AtMostOne(a, b, c) == ~(a /\ b) /\ ~(a /\ c) /\ ~(b /\ c)

\* C10: for every inode the reader decodes, is_file, is_dir and is_link are
\* (mode & 0xF000) = 0x8000, 0x4000 and 0xA000, and so at most one holds.
C10_TypeByMaskedEquality ==
    \A n \in DOMAIN inode_table :
        LET inode == inode_table[n] IN
        /\ is_file(inode) <=> (BitAnd(inode.mode, EXT2_S_IFMT) = EXT2_S_IFREG)
        /\ is_dir(inode) <=> (BitAnd(inode.mode, EXT2_S_IFMT) = EXT2_S_IFDIR)
        /\ is_link(inode) <=> (BitAnd(inode.mode, EXT2_S_IFMT) = EXT2_S_IFLNK)
        /\ AtMostOne(is_file(inode), is_dir(inode), is_link(inode))

----------------------------------------------------------------------------
(* C11                                                                     *)

\* the directory blocks of an inode: its non-zero block pointers
DirBlocks(inode) == {inode.block[i] : i \in 1..Len(inode.block)} \ {0}

\* the walk of every directory block of the inode was started
Walked(inode) ==
    \A b \in DirBlocks(inode) :
        Rd("dir_header", b * block_size(img.sb), DirHeaderSize) \in reads

----------------------------------------------------------------------------
(* C12                                                                     *)

\* C12: once open has completed, no step of a path resolution or of a file
\* read, whether it succeeds or fails, changes the inode table: the set of
\* inode numbers, every record's fields and every name map stay as they are.
C12_TableFrozenAfterOpen ==
    [][pc = "opened" => (inode_table' = inode_table /\ bound' = bound /\ pc' = pc)]_vars

\* a read of the 65-byte file has returned after open
C12_Witness ==
    /\ pc = "opened"
    /\ op = "read"
    /\ img.inodes[current_inode_idx].i_size = 65
    /\ data.len > 0

----------------------------------------------------------------------------
(* C13                                                                     *)

\* C13: while the entries of directory block b are walked, every 8-byte
\* entry header that is read starts inside the block, at an offset in
\* [b*block_size, (b+1)*block_size): a last record that reaches the end of
\* the block ends the walk of that block.  (pc = "walk" is the top of the
\* entry loop: the header at the cursor is the next thing read.)
C13_HeaderInsideBlock ==
    pc = "walk" =>
        /\ blk * block_size(img.sb) <= offset
        /\ offset < (blk + 1) * block_size(img.sb)

----------------------------------------------------------------------------
(* C14                                                                     *)

\* C14: the walk of a directory block terminates for every image, by an
\* entry with inode number 0 or by an error: whenever the walk is at the top
\* of its entry loop, the pass it makes next changes the state of the walk,
\* so that the cursor never stays in place forever (an entry with non-zero
\* inode number and record length 0 included).
C14_WalkMakesProgress ==
    pc = "walk" => ENABLED <<WalkEntry>>_vars

====
